---- MODULE Spec2Model ----
(***************************************************************************)
(* Model of deepface's recognition pipeline                                *)
(*   src/deepface/modules/recognition.py      find, __list_images,         *)
(*                                            __find_bulk_embeddings       *)
(*   src/deepface/detectors/DetectorWrapper.py build_model, detect_faces   *)
(*                                                                         *)
(* The file system holds one reference directory "db" with up to three     *)
(* image files and the pickled store of the model "VGG-Face".  Numbers     *)
(* that are floats in the program (embedding components, distances,        *)
(* thresholds) are fixed-point integers in hundredths.                     *)
(***************************************************************************)
EXTENDS Integers, Sequences, FiniteSets, TLC

VARIABLES disk, storeFile, last, face_detector_obj, built, ret, threads

vars == <<disk, storeFile, last, face_detector_obj, built, ret, threads>>

(***************************************************************************)
(* Bounds                                                                  *)
(***************************************************************************)
\* how many times one backend may be constructed before the model stops
MaxBuilds == 2
\* how many records a store file found at start-up (not written by find) holds
MaxHandRecords == 2

(***************************************************************************)
(* The world outside the program: files, images, faces, embeddings         *)
(***************************************************************************)
Directories == {"db"}
\* db_path: the reference directory, or the path of A.jpg, which is an image
\* file or does not exist at all
DbPaths == {"db", "db/A.jpg"}
Images == {"db/A.jpg", "db/B.jpg", "db/C.png"}
\* disk[p] = 0: no such file; 1, 2: the file exists with its first or its
\* second (modified in place) content.  Only A.jpg is ever edited in place.
Versions(p) == IF p = "db/A.jpg" THEN {1, 2} ELSE {1}
\* the store file: missing, or the pickled list of records
NoFile == [exists |-> FALSE, records |-> << >>]
Pickled(representations) == [exists |-> TRUE, records |-> representations]
Queries == {"q0", "q2"}
Metrics == {"cosine", "euclidean", "euclidean_l2", "manhattan"}
Region(x, y, w, h) == [x |-> x, y |-> y, w |-> w, h |-> h]

Content(p, v) ==
    CASE p = "db/A.jpg" -> (IF v = 1 THEN "A1" ELSE "A2")
      [] p = "db/B.jpg" -> "B1"
      [] OTHER          -> "C1"

\* the Detector capability: the faces of an image, in detection order
Detect(img) ==
    CASE img = "A1" -> << [crop |-> "f1", region |-> Region(1, 1, 2, 2)] >>
      [] img = "A2" -> << [crop |-> "f2", region |-> Region(1, 1, 2, 2)] >>
      [] img = "B1" -> << [crop |-> "f1", region |-> Region(1, 1, 2, 2)],
                          [crop |-> "f3", region |-> Region(4, 1, 2, 2)] >>
      [] img = "q2" -> << [crop |-> "f2", region |-> Region(1, 1, 2, 2)],
                          [crop |-> "f3", region |-> Region(2, 3, 3, 3)] >>
      [] OTHER      -> << >>

\* functions.extract_faces: the detected faces; with none found it fails
\* under enforce_detection and otherwise falls back to the whole image
WholeImage(img) == [crop |-> img, region |-> Region(0, 0, 8, 8)]

ExtractFaces(img, enforce_detection) ==
    IF Detect(img) # << >>
    THEN [ok |-> TRUE, faces |-> Detect(img)]
    ELSE IF enforce_detection
         THEN [ok |-> FALSE, faces |-> << >>]
         ELSE [ok |-> TRUE, faces |-> << WholeImage(img) >>]

\* representation.represent with detector_backend="skip": the Embedder
Embed(crop) ==
    CASE crop = "f1" -> <<60, 80>>
      [] crop = "f2" -> <<80, 60>>
      [] crop = "f3" -> <<100, 0>>
      [] crop = "q0" -> <<30, 40>>
      [] OTHER       -> <<0, 100>>

(***************************************************************************)
(* Distance Engine (deepface.commons.distance), in hundredths              *)
(***************************************************************************)
RECURSIVE SqrtBetween(_, _, _)
SqrtBetween(n, lo, hi) ==
    IF lo >= hi THEN lo
    ELSE LET mid == (lo + hi + 1) \div 2
         IN IF mid * mid <= n THEN SqrtBetween(n, mid, hi)
                              ELSE SqrtBetween(n, lo, mid - 1)

\* the integer square root; no sum of squares of the model exceeds 255 * 255
ISqrt(n) == SqrtBetween(n, 0, 255)

\* find hands these operators vectors of equal length only (line 229); on
\* others they work on the common prefix
RECURSIVE Dot(_, _)
Dot(a, b) ==
    IF a = << >> \/ b = << >> THEN 0
    ELSE Head(a) * Head(b) + Dot(Tail(a), Tail(b))

findCosineDistance(a, b) ==
    100 - (100 * Dot(a, b)) \div (ISqrt(Dot(a, a)) * ISqrt(Dot(b, b)))

findEuclideanDistance(a, b) ==
    LET d == [i \in DOMAIN a \cap DOMAIN b |-> a[i] - b[i]] IN ISqrt(Dot(d, d))

l2_normalize(v) ==
    LET norm == ISqrt(Dot(v, v)) IN [i \in 1..Len(v) |-> (100 * v[i]) \div norm]

ThresholdCosine == 40
ThresholdEuclidean == 60
ThresholdEuclideanL2 == 86
ThresholdDefault == 40

findThreshold(model_name, distance_metric) ==
    CASE distance_metric = "cosine"       -> ThresholdCosine
      [] distance_metric = "euclidean"    -> ThresholdEuclidean
      [] distance_metric = "euclidean_l2" -> ThresholdEuclideanL2
      [] OTHER                            -> ThresholdDefault

(***************************************************************************)
(* recognition.py: the store and its synchronisation                       *)
(***************************************************************************)
model_name == "VGG-Face"

df_cols == << "identity", "VGG-Face_representation",
              "target_x", "target_y", "target_w", "target_h" >>

IsDirUnchecked(db_path) == TRUE

\* line 78
IsDir(db_path) == db_path \in Directories

\* line 102: only the first record's length is compared with the columns
SchemaOutOfDate(representations) ==
    Len(representations) > 0 /\ Len(representations[1]) # Len(df_cols)

\* __list_images: the image files now in the directory
ListImages(d) == {p \in Images : d[p] # 0}

\* line 109: beta_employees
Identities(representations) ==
    {representations[i][1] : i \in DOMAIN representations}

NewbiesWithoutDifference(alpha_employees, beta_employees) == alpha_employees

Newbies(alpha_employees, beta_employees) == alpha_employees \ beta_employees

OldiesEverything(alpha_employees, beta_employees) == beta_employees

Oldies(alpha_employees, beta_employees) == beta_employees \ alpha_employees

\* list(set(...)) and os.walk give the paths in no particular order: walk is
\* the order this call happens to see them in
Orderings(S) == {w \in [1..Cardinality(S) -> S] :
                    \A i, j \in DOMAIN w : w[i] = w[j] => i = j}

\* the images this call will embed (lines 111 and 157)
ToEmbed(db_path, d, store) ==
    IF ~IsDir(db_path) THEN {}
    ELSE IF ~store.exists THEN ListImages(d)
    ELSE IF SchemaOutOfDate(store.records) THEN {}
    ELSE Newbies(ListImages(d), Identities(store.records))

InWalkOrder(S, walk) == SelectSeq(walk, LAMBDA p : p \in S)

ImageRecordsFirstFace(employee, img_objs) ==
    << << employee, Embed(img_objs[1].crop),
          img_objs[1].region.x, img_objs[1].region.y,
          img_objs[1].region.w, img_objs[1].region.h >> >>

\* lines 335-354: one record per face of the image
ImageRecords(employee, img_objs) ==
    [i \in 1..Len(img_objs) |->
        << employee, Embed(img_objs[i].crop),
           img_objs[i].region.x, img_objs[i].region.y,
           img_objs[i].region.w, img_objs[i].region.h >>]

RECURSIVE FindBulkEmbeddings(_, _, _)
FindBulkEmbeddings(employees, d, enforce_detection) ==
    IF employees = << >>
    THEN [ok |-> TRUE, representations |-> << >>, nDetect |-> 0, nEmbed |-> 0]
    ELSE LET employee == Head(employees)
             img_objs == ExtractFaces(Content(employee, d[employee]),
                                      enforce_detection)
         IN IF ~img_objs.ok
            THEN [ok |-> FALSE, representations |-> << >>,
                  nDetect |-> 1, nEmbed |-> 0]
            ELSE LET rest == FindBulkEmbeddings(Tail(employees), d,
                                                enforce_detection)
                 IN [ok |-> rest.ok,
                     representations |->
                        IF rest.ok
                        THEN ImageRecords(employee, img_objs.faces)
                                \o rest.representations
                        ELSE << >>,
                     nDetect |-> 1 + rest.nDetect,
                     nEmbed |-> Len(img_objs.faces) + rest.nEmbed]

DropOldiesNone(representations, oldies) == representations

\* line 136
DropOldies(representations, oldies) ==
    SelectSeq(representations, LAMBDA rep : rep[1] \notin oldies)

\* what the first half of find (lines 78-184) leaves behind
Synced(err, reps, store, wrote, readStore, newbies, oldies, nDetect, nEmbed) ==
    [err |-> err, representations |-> reps, store |-> store,
     wrote |-> wrote, readStore |-> readStore, newbies |-> newbies,
     oldies |-> oldies, nDetect |-> nDetect, nEmbed |-> nEmbed]

SaveChangedBeforeCheck(store, representations, newbies, oldies, nDetect, nEmbed) ==
    IF newbies # {} \/ oldies # {}
    THEN Synced(IF Len(representations) = 0 THEN "EmptyDatabaseError" ELSE "",
                representations, Pickled(representations), TRUE, TRUE,
                newbies, oldies, nDetect, nEmbed)
    ELSE Synced("", representations, store, FALSE, TRUE,
                newbies, oldies, nDetect, nEmbed)

\* lines 138-144: after a change the store is saved unless it became empty
SaveChanged(store, representations, newbies, oldies, nDetect, nEmbed) ==
    IF newbies # {} \/ oldies # {}
    THEN IF Len(representations) = 0
         THEN Synced("EmptyDatabaseError", << >>, store, FALSE, TRUE,
                     newbies, oldies, nDetect, nEmbed)
         ELSE Synced("", representations, Pickled(representations), TRUE,
                     TRUE, newbies, oldies, nDetect, nEmbed)
    ELSE Synced("", representations, store, FALSE, TRUE,
                newbies, oldies, nDetect, nEmbed)

\* lines 98-154: the store file exists
SyncExisting(d, store, enforce_detection, walk) ==
    IF SchemaOutOfDate(store.records)
    THEN Synced("StoreCorruptError", << >>, store, FALSE, TRUE, {}, {}, 0, 0)
    ELSE LET representations == store.records
             alpha_employees == ListImages(d)
             beta_employees == Identities(representations)
             newbies == Newbies(alpha_employees, beta_employees)
             oldies == Oldies(alpha_employees, beta_employees)
             bulk == FindBulkEmbeddings(InWalkOrder(newbies, walk), d,
                                        enforce_detection)
         IN IF ~bulk.ok
            THEN Synced("FaceNotFoundError", << >>, store, FALSE, TRUE,
                        newbies, oldies, bulk.nDetect, bulk.nEmbed)
            ELSE SaveChanged(store,
                             DropOldies(representations
                                           \o bulk.representations, oldies),
                             newbies, oldies, bulk.nDetect, bulk.nEmbed)

\* lines 156-184: no store file, build it from scratch
BuildFromScratch(d, enforce_detection, walk) ==
    LET employees == InWalkOrder(ListImages(d), walk)
        bulk == FindBulkEmbeddings(employees, d, enforce_detection)
    IN IF Len(employees) = 0
       THEN Synced("EmptyDatabaseError", << >>, NoFile, FALSE, FALSE,
                   {}, {}, 0, 0)
       ELSE IF ~bulk.ok
            THEN Synced("FaceNotFoundError", << >>, NoFile, FALSE, FALSE,
                        {}, {}, bulk.nDetect, bulk.nEmbed)
            ELSE Synced("", bulk.representations,
                        Pickled(bulk.representations),
                        TRUE, FALSE, {}, {}, bulk.nDetect, bulk.nEmbed)

\* lines 78-184
SyncStore(db_path, d, store, enforce_detection, walk) ==
    IF ~IsDir(db_path)
    THEN Synced("ConfigurationError", << >>, store, FALSE, FALSE, {}, {}, 0, 0)
    ELSE IF store.exists
         THEN SyncExisting(d, store, enforce_detection, walk)
         ELSE BuildFromScratch(d, enforce_detection, walk)

(***************************************************************************)
(* recognition.py: the query against the store (lines 186-271)             *)
(***************************************************************************)
\* pandas.DataFrame(representations, columns=df_cols): a record longer than
\* the columns is refused, a shorter one is padded with missing values.
\* (A stored record holds at least its identity and its embedding.)
Missing == -1

PadRow(rep) ==
    [c \in 1..Len(df_cols) |-> IF c <= Len(rep) THEN rep[c] ELSE Missing]

DataFrame(representations) ==
    IF \E i \in DOMAIN representations : Len(representations[i]) > Len(df_cols)
    THEN [ok |-> FALSE, rows |-> << >>]
    ELSE [ok |-> TRUE,
          rows |-> [i \in DOMAIN representations |-> PadRow(representations[i])]]

ValidMetric(distance_metric) ==
    distance_metric \in {"cosine", "euclidean", "euclidean_l2"}

\* lines 236-244
Distance(distance_metric, source_representation, target_representation) ==
    CASE distance_metric = "cosine" ->
            findCosineDistance(source_representation, target_representation)
      [] distance_metric = "euclidean" ->
            findEuclideanDistance(source_representation, target_representation)
      [] OTHER ->
            findEuclideanDistance(l2_normalize(source_representation),
                                  l2_normalize(target_representation))

DimsAlwaysEqual(target_representation, source_representation) == TRUE

\* line 229
SameDims(target_representation, source_representation) ==
    Len(target_representation) = Len(source_representation)

\* lines 223-248: the distance of every row of df, or the first error
RECURSIVE Distances(_, _, _)
Distances(rows, target_representation, distance_metric) ==
    IF rows = << >>
    THEN [err |-> "", distances |-> << >>]
    ELSE LET source_representation == Head(rows)[2]
         IN IF ~SameDims(target_representation, source_representation)
            THEN [err |-> "DimensionMismatchError", distances |-> << >>]
            ELSE IF ~ValidMetric(distance_metric)
            THEN [err |-> "ConfigurationError", distances |-> << >>]
            ELSE LET rest == Distances(Tail(rows), target_representation,
                                       distance_metric)
                 IN [err |-> rest.err,
                     distances |->
                        IF rest.err = ""
                        THEN << Distance(distance_metric, source_representation,
                                         target_representation) >>
                                \o rest.distances
                        ELSE << >>]

\* lines 217-221, 252, 255: one row of result_df
ResultRow(row, source_region, distance) ==
    [identity |-> row[1],
     target_x |-> row[3], target_y |-> row[4],
     target_w |-> row[5], target_h |-> row[6],
     source_x |-> source_region.x, source_y |-> source_region.y,
     source_w |-> source_region.w, source_h |-> source_region.h,
     distance |-> distance]

KeepRowBelow(distance, threshold) == distance < threshold

\* line 257
KeepRow(distance, threshold) == distance <= threshold

\* lines 258-260: sort_values(ascending=True); frames this small are sorted
\* by insertion
RECURSIVE Insert(_, _)
Insert(sorted, r) ==
    IF sorted = << >> THEN << r >>
    ELSE IF Head(sorted).distance <= r.distance
         THEN << Head(sorted) >> \o Insert(Tail(sorted), r)
         ELSE << r >> \o sorted

RECURSIVE InsertionSort(_, _)
InsertionSort(sorted, rows) ==
    IF rows = << >> THEN sorted
    ELSE InsertionSort(Insert(sorted, Head(rows)), Tail(rows))

SortValuesNone(rows) == rows

SortValues(rows) == InsertionSort(<< >>, rows)

SourceRegionOfFirst(source_objs, k) == source_objs[1].region

\* line 205: source_region of the k-th detected face
SourceRegion(source_objs, k) == source_objs[k].region

\* lines 217-260 for one detected face
FaceResult(rows, source_region, distances, distance_metric) ==
    LET all == [i \in DOMAIN rows |->
                   ResultRow(rows[i], source_region, distances[i])]
        threshold == findThreshold(model_name, distance_metric)
    IN SortValues(SelectSeq(all, LAMBDA r : KeepRow(r.distance, threshold)))

\* line 262
AppendResult(resp_obj, result_df) == Append(resp_obj, result_df)

\* lines 205-262: faces k..Len(source_objs), results so far in resp_obj
RECURSIVE QueryLoop(_, _, _, _, _)
QueryLoop(rows, source_objs, k, distance_metric, resp_obj) ==
    IF k > Len(source_objs)
    THEN [err |-> "", resp |-> resp_obj, nEmbed |-> 0]
    ELSE LET target_representation == Embed(source_objs[k].crop)
             ds == Distances(rows, target_representation, distance_metric)
         IN IF ds.err # ""
            THEN [err |-> ds.err, resp |-> << >>, nEmbed |-> 1]
            ELSE LET rest ==
                       QueryLoop(rows, source_objs, k + 1, distance_metric,
                                 AppendResult(resp_obj,
                                    FaceResult(rows, SourceRegion(source_objs, k),
                                               ds.distances, distance_metric)))
                 IN [err |-> rest.err, resp |-> rest.resp,
                     nEmbed |-> 1 + rest.nEmbed]

\* lines 186-271
Query(representations, img_path, distance_metric, enforce_detection) ==
    LET df == DataFrame(representations)
        source_objs == ExtractFaces(img_path, enforce_detection)
    IN IF ~df.ok
       THEN [err |-> "FrameShapeError", resp |-> << >>,
             nDetect |-> 0, nEmbed |-> 0]
       ELSE IF ~source_objs.ok
       THEN [err |-> "FaceNotFoundError", resp |-> << >>,
             nDetect |-> 1, nEmbed |-> 0]
       ELSE LET loop == QueryLoop(df.rows, source_objs.faces, 1,
                                  distance_metric, << >>)
            IN [err |-> loop.err, resp |-> loop.resp,
                nDetect |-> 1, nEmbed |-> loop.nEmbed]

\* find, whole: what the call did and what it returned
FindCall(db_path, img_path, distance_metric, enforce_detection, d, store, walk) ==
    LET sync == SyncStore(db_path, d, store, enforce_detection, walk)
        query == Query(sync.representations, img_path, distance_metric,
                       enforce_detection)
        base == [db_path |-> db_path, img_path |-> img_path,
                 distance_metric |-> distance_metric,
                 enforce_detection |-> enforce_detection,
                 store |-> sync.store, wrote |-> sync.wrote,
                 readStore |-> sync.readStore,
                 newbies |-> sync.newbies, oldies |-> sync.oldies]
    IN IF sync.err # ""
       THEN [outcome |-> sync.err, resp |-> << >>,
             nDetect |-> sync.nDetect, nEmbed |-> sync.nEmbed] @@ base
       ELSE [outcome |-> IF query.err = "" THEN "ok" ELSE query.err,
             resp |-> query.resp,
             nDetect |-> sync.nDetect + query.nDetect,
             nEmbed |-> sync.nEmbed + query.nEmbed] @@ base

(***************************************************************************)
(* DetectorWrapper.py: the registry of built detectors                     *)
(***************************************************************************)
\* lines 27-37
backends == {"opencv", "mtcnn", "ssd", "dlib", "retinaface", "mediapipe",
             "yolov8", "yunet", "fastmtcnn"}
BackendNames == backends \cup {"haarcascade"}

\* before the first call the module has no global face_detector_obj
EmptyDict == [n \in {} |-> << >>]
NoRegistry == [defined |-> FALSE, dict |-> EmptyDict]

GlobalsAlwaysNew(obj) == EmptyDict

\* lines 39-40: the dictionary, created empty when the global is missing
Globals(obj) == IF obj.defined THEN obj.dict ELSE EmptyDict

NeverBuilt(detector_backend, obj) == FALSE

\* lines 42-43: detector_backend in built_models
IsBuilt(detector_backend, obj) == detector_backend \in DOMAIN obj

\* line 47: every construction makes a new object, told apart by the name
\* of its backend and the number of the construction
NewInstance(detector_backend, n) == << detector_backend, n >>

\* lines 25-52: the dictionary, the construction counts and the return value
\* (or the error raised) after build_model(detector_backend)
BuildModel(detector_backend, obj, counts) ==
    LET dict == Globals(obj)
    IN IF IsBuilt(detector_backend, dict)
       THEN [obj |-> [defined |-> TRUE, dict |-> dict], counts |-> counts,
             err |-> "", value |-> dict[detector_backend]]
       ELSE IF detector_backend \in backends
       THEN LET face_detector ==
                   NewInstance(detector_backend, counts[detector_backend] + 1)
            IN [obj |-> [defined |-> TRUE,
                         dict |-> [n \in DOMAIN dict \cup {detector_backend} |->
                                     IF n = detector_backend THEN face_detector
                                                             ELSE dict[n]]],
                counts |-> [counts EXCEPT ![detector_backend] = @ + 1],
                err |-> "", value |-> face_detector]
       ELSE [obj |-> [defined |-> TRUE, dict |-> dict], counts |-> counts,
             err |-> "UnknownBackendError", value |-> << >>]

\* build_model called from two threads of one process.  The interpreter
\* may switch threads between any two statements; a thread is at the line
\* it executes next.
Threads == {"t1", "t2"}
ThreadBackends == {"opencv", "mtcnn", "haarcascade"}

\* a thread that has not called build_model, with its locals unset
NotCalled ==
    [pc |-> "idle", detector_backend |-> "", built_models |-> {},
     face_detector |-> << >>, value |-> << >>, err |-> ""]

(***************************************************************************)
(* The state machine                                                       *)
(***************************************************************************)
Idle ==
    [prevOk |-> FALSE, outcome |-> "idle", db_path |-> "db", img_path |-> "q0",
     distance_metric |-> "cosine", enforce_detection |-> TRUE,
     wrote |-> FALSE, readStore |-> FALSE, newbies |-> {}, oldies |-> {},
     nDetect |-> 0, nEmbed |-> 0, resp |-> << >>]

NoCall == [op |-> "none", name |-> "", err |-> "", value |-> << >>,
           constructed |-> FALSE]

InitRegistry ==
    /\ face_detector_obj = NoRegistry
    /\ built = [n \in backends |-> 0]
    /\ ret = NoCall
    /\ threads = [t \in Threads |-> NotCalled]

Init ==
    /\ disk = [p \in Images |-> 0]
    /\ storeFile = NoFile
    /\ last = Idle
    /\ InitRegistry

\* Store files that find did not write itself: hand-built ones, and ones
\* left behind by another version of the program or of the embedder
\* (VGG-Face has had a 2622 and a 4096 dimensional output).
HandRecords ==
    { << "db/A.jpg", <<60, 80>>, 1, 1, 2, 2 >>,
      << "db/B.jpg", <<60, 80, 0>>, 4, 1, 2, 2 >>,
      << "db/B.jpg", <<80, 60>>, 4, 1, 2 >>,
      << "db/A.jpg", <<60, 80>>, 1, 1, 2, 2, 0 >> }

HandStores ==
    {Pickled(r) : r \in UNION {[1..n -> HandRecords] : n \in 0..MaxHandRecords}}

InitHandBuilt ==
    /\ disk \in [Images -> {0, 1}]
    /\ storeFile \in HandStores
    /\ last = Idle
    /\ InitRegistry

find(db_path, img_path, distance_metric, enforce_detection) ==
    \E walk \in Orderings(ToEmbed(db_path, disk, storeFile)) :
        \E call \in {FindCall(db_path, img_path, distance_metric,
                             enforce_detection, disk, storeFile, walk)} :
           /\ storeFile' = call.store
           /\ last' = [f \in DOMAIN Idle |->
                          IF f = "prevOk" THEN last.outcome = "ok" ELSE call[f]]
           /\ UNCHANGED <<disk, face_detector_obj, built, ret, threads>>

\* the user's side of the directory; last describes the find that has just
\* returned (prevOk: the find before it had just returned too, with
\* results) and is forgotten once the directory changes
AddImage(p, v) ==
    /\ disk[p] = 0
    /\ v \in Versions(p)
    /\ disk' = [disk EXCEPT ![p] = v]
    /\ last' = Idle
    /\ UNCHANGED <<storeFile, face_detector_obj, built, ret, threads>>

RemoveImage(p) ==
    /\ disk[p] # 0
    /\ disk' = [disk EXCEPT ![p] = 0]
    /\ last' = Idle
    /\ UNCHANGED <<storeFile, face_detector_obj, built, ret, threads>>

ModifyImage(p) ==
    /\ disk[p] # 0
    /\ 3 - disk[p] \in Versions(p)
    /\ disk' = [disk EXCEPT ![p] = 3 - disk[p]]
    /\ last' = Idle
    /\ UNCHANGED <<storeFile, face_detector_obj, built, ret, threads>>

DeleteStore ==
    /\ storeFile.exists
    /\ storeFile' = NoFile
    /\ last' = Idle
    /\ UNCHANGED <<disk, face_detector_obj, built, ret, threads>>

\* build_model; the guard stops the model once a backend has been
\* constructed MaxBuilds times
build_model(detector_backend) ==
    \E b \in {BuildModel(detector_backend, face_detector_obj, built)} :
        /\ \A n \in backends : b.counts[n] <= MaxBuilds
        /\ face_detector_obj' = b.obj
        /\ built' = b.counts
        /\ ret' = [op |-> "build_model", name |-> detector_backend,
                   err |-> b.err, value |-> b.value,
                   constructed |-> b.counts # built]
        /\ UNCHANGED <<disk, storeFile, last, threads>>

\* detect_faces (lines 69-70): build_model, then the instance's detection
detect_faces(detector_backend, img) ==
    \E b \in {BuildModel(detector_backend, face_detector_obj, built)} :
        /\ \A n \in backends : b.counts[n] <= MaxBuilds
        /\ face_detector_obj' = b.obj
        /\ built' = b.counts
        /\ ret' = [op |-> "detect_faces", name |-> detector_backend,
                   err |-> b.err,
                   value |-> IF b.err = "" THEN << b.value, Detect(img) >>
                                           ELSE << >>,
                   constructed |-> b.counts # built]
        /\ UNCHANGED <<disk, storeFile, last, threads>>

\* a thread enters build_model
Call(t, detector_backend) ==
    /\ threads[t].pc = "idle"
    /\ threads' = [threads EXCEPT ![t] =
                      [NotCalled EXCEPT !.pc = "line39",
                                        !.detector_backend = detector_backend]]
    /\ UNCHANGED <<disk, storeFile, last, face_detector_obj, built, ret>>

\* line 39: is there a global face_detector_obj?
CheckGlobals(t) ==
    /\ threads[t].pc = "line39"
    /\ threads' = [threads EXCEPT ![t].pc =
                      IF face_detector_obj.defined THEN "line42" ELSE "line40"]
    /\ UNCHANGED <<disk, storeFile, last, face_detector_obj, built, ret>>

\* line 40: the global is bound to a new, empty dictionary
CreateRegistry(t) ==
    /\ threads[t].pc = "line40"
    /\ face_detector_obj' = [defined |-> TRUE, dict |-> EmptyDict]
    /\ threads' = [threads EXCEPT ![t].pc = "line42"]
    /\ UNCHANGED <<disk, storeFile, last, built, ret>>

\* lines 42-46 and 50: the keys as they are now, and the way the call takes
ListBuiltModels(t) ==
    /\ threads[t].pc = "line42"
    /\ LET built_models == DOMAIN face_detector_obj.dict
           detector_backend == threads[t].detector_backend
       IN threads' = [threads EXCEPT
             ![t].built_models = built_models,
             ![t].pc = IF detector_backend \in built_models THEN "line52"
                       ELSE IF detector_backend \in backends THEN "line47"
                       ELSE "raised",
             ![t].err = IF detector_backend \notin built_models
                           /\ detector_backend \notin backends
                        THEN "UnknownBackendError" ELSE ""]
    /\ UNCHANGED <<disk, storeFile, last, face_detector_obj, built, ret>>

\* line 47: the detector is constructed
Construct(t) ==
    /\ threads[t].pc = "line47"
    /\ built[threads[t].detector_backend] < MaxBuilds
    /\ built' = [built EXCEPT ![threads[t].detector_backend] = @ + 1]
    /\ threads' = [threads EXCEPT
          ![t].face_detector =
              NewInstance(threads[t].detector_backend,
                          built[threads[t].detector_backend] + 1),
          ![t].pc = "line48"]
    /\ UNCHANGED <<disk, storeFile, last, face_detector_obj, ret>>

\* line 48: it is stored under its name in the dictionary that is global now
StoreInstance(t) ==
    /\ threads[t].pc = "line48"
    /\ LET dict == face_detector_obj.dict
           detector_backend == threads[t].detector_backend
       IN face_detector_obj' =
             [defined |-> TRUE,
              dict |-> [n \in DOMAIN dict \cup {detector_backend} |->
                          IF n = detector_backend THEN threads[t].face_detector
                                                  ELSE dict[n]]]
    /\ threads' = [threads EXCEPT ![t].pc = "line52"]
    /\ UNCHANGED <<disk, storeFile, last, built, ret>>

\* line 52: the entry of the name as it is now; none is a KeyError
ReturnInstance(t) ==
    /\ threads[t].pc = "line52"
    /\ LET dict == face_detector_obj.dict
           detector_backend == threads[t].detector_backend
       IN threads' = [threads EXCEPT
             ![t].pc = IF detector_backend \in DOMAIN dict THEN "returned"
                                                           ELSE "raised",
             ![t].value = IF detector_backend \in DOMAIN dict
                          THEN dict[detector_backend] ELSE << >>,
             ![t].err = IF detector_backend \in DOMAIN dict THEN ""
                                                            ELSE "KeyError"]
    /\ UNCHANGED <<disk, storeFile, last, face_detector_obj, built, ret>>

NextRegistry ==
    \/ \E detector_backend \in BackendNames : build_model(detector_backend)
    \/ \E detector_backend \in BackendNames, img \in Queries :
          detect_faces(detector_backend, img)

SpecRegistry == Init /\ [][NextRegistry]_vars

Next ==
    \/ \E db_path \in DbPaths, img_path \in Queries,
          distance_metric \in Metrics, enforce_detection \in BOOLEAN :
          find(db_path, img_path, distance_metric, enforce_detection)
    \/ \E p \in Images, v \in {1, 2} : AddImage(p, v)
    \/ \E p \in Images : RemoveImage(p)
    \/ \E p \in Images : ModifyImage(p)
    \/ DeleteStore

Spec == Init /\ [][Next]_vars

\* each thread calls build_model once, for the first time
NextThreads ==
    \/ \E t \in Threads, detector_backend \in ThreadBackends :
          Call(t, detector_backend)
    \/ \E t \in Threads : CheckGlobals(t)
    \/ \E t \in Threads : CreateRegistry(t)
    \/ \E t \in Threads : ListBuiltModels(t)
    \/ \E t \in Threads : Construct(t)
    \/ \E t \in Threads : StoreInstance(t)
    \/ \E t \in Threads : ReturnInstance(t)

SpecThreads == Init /\ [][NextThreads]_vars

\* find over a directory whose store file it did not write
NextHandBuilt ==
    \/ \E db_path \in DbPaths, img_path \in Queries,
          distance_metric \in Metrics, enforce_detection \in BOOLEAN :
          find(db_path, img_path, distance_metric, enforce_detection)
    \/ DeleteStore

SpecHandBuilt == InitHandBuilt /\ [][NextHandBuilt]_vars

(***************************************************************************)
(* Properties                                                              *)
(***************************************************************************)
\* a find has returned in this step
FindReturned == last' # last /\ last'.outcome # "idle"

\* the faces of the query image of the call that has just returned
QueryFaces == ExtractFaces(last.img_path, last.enforce_detection).faces

\* the distance of stored record i to query face k, as find computes it
StoredDistance(i, k) ==
    Distance(last.distance_metric, storeFile.records[i][2],
             Embed(QueryFaces[k].crop))

ExpectedRow(i, k) ==
    ResultRow(storeFile.records[i], QueryFaces[k].region, StoredDistance(i, k))

CountRows(rows, r) == Cardinality({j \in DOMAIN rows : rows[j] = r})

\* C1: a successful find over an existing store with identities S and a
\* directory holding the images D reports additions D \ S and removals S \ D
\* and leaves a store whose identities are exactly D.
C1_SyncIsSetDifference ==
    [][ (FindReturned /\ last'.outcome = "ok" /\ storeFile.exists) =>
          /\ last'.newbies = ListImages(disk) \ Identities(storeFile.records)
          /\ last'.oldies = Identities(storeFile.records) \ ListImages(disk)
          /\ storeFile'.exists
          /\ Identities(storeFile'.records) = ListImages(disk) ]_vars

\* store {A, B}, directory {B, C}: additions {C}, removals {A}, store {B, C}
C1_Witness ==
    /\ last.outcome = "ok" /\ last.readStore
    /\ last.newbies = {"db/C.png"} /\ last.oldies = {"db/A.jpg"}
    /\ Identities(storeFile.records) = {"db/B.jpg", "db/C.png"}

\* C2: a find that follows a successful find on the same, unchanged directory
\* detects no additions and no removals and does not write the store file.
C2_SecondFindWritesNothing ==
    [][ (FindReturned /\ last.outcome = "ok" /\ last'.db_path = last.db_path) =>
          /\ last'.newbies = {} /\ last'.oldies = {}
          /\ ~last'.wrote
          /\ storeFile' = storeFile ]_vars

C2_Witness ==
    /\ last.prevOk /\ last.outcome = "ok"
    /\ last.readStore /\ ~last.wrote
    /\ Cardinality(ListImages(disk)) >= 2

\* C3: a find on a directory that holds no image file fails (with
\* EmptyDatabaseError) whatever the store file contains: it never returns
\* results.
C3_EmptyDirectoryFails ==
    (last.outcome # "idle" /\ IsDir(last.db_path) /\ ListImages(disk) = {})
        => last.outcome # "ok"

\* C4: a find that loads a store file holding a record whose column count is
\* not that of the schema fails, wherever in the list that record is.
C4_WrongColumnCountFails ==
    [][ (/\ FindReturned /\ IsDir(last'.db_path) /\ storeFile.exists
         /\ \E i \in DOMAIN storeFile.records :
               Len(storeFile.records[i]) # Len(df_cols))
        => last'.outcome # "ok" ]_vars

\* C5: every result set holds exactly the store records whose distance to
\* the query face is at most the threshold, each as often as it is stored.
C5_ExactlyRowsWithinThreshold ==
    last.outcome = "ok" =>
        \A k \in DOMAIN last.resp :
            LET threshold == findThreshold(model_name, last.distance_metric)
                recs == DOMAIN storeFile.records
            IN /\ Len(last.resp[k]) =
                     Cardinality({i \in recs : StoredDistance(i, k) <= threshold})
               /\ \A i \in recs :
                     CountRows(last.resp[k], ExpectedRow(i, k)) =
                        IF StoredDistance(i, k) <= threshold
                        THEN Cardinality({j \in recs :
                                 ExpectedRow(j, k) = ExpectedRow(i, k)})
                        ELSE 0

\* a result set with two rows of one identity, a row at the threshold, and a
\* stored record left out
C5_Witness ==
    /\ last.outcome = "ok"
    /\ \E k \in DOMAIN last.resp :
          /\ Len(last.resp[k]) < Len(storeFile.records)
          /\ \E a, b \in DOMAIN last.resp[k] :
                /\ a # b
                /\ last.resp[k][a].identity = last.resp[k][b].identity
                /\ last.resp[k][a].distance =
                      findThreshold(model_name, last.distance_metric)

\* C6: find returns one result set per face of the query image, in detection
\* order, and every row of the k-th set carries the region of the k-th face.
C6_OneResultPerFace ==
    last.outcome = "ok" =>
        /\ Len(last.resp) = Len(QueryFaces)
        /\ \A k \in DOMAIN last.resp : \A j \in DOMAIN last.resp[k] :
              /\ last.resp[k][j].source_x = QueryFaces[k].region.x
              /\ last.resp[k][j].source_y = QueryFaces[k].region.y
              /\ last.resp[k][j].source_w = QueryFaces[k].region.w
              /\ last.resp[k][j].source_h = QueryFaces[k].region.h

C6_Witness ==
    /\ last.outcome = "ok"
    /\ Len(last.resp) = 2
    /\ last.resp[1] # << >> /\ last.resp[2] # << >>
    /\ QueryFaces[1].region # QueryFaces[2].region

\* C7: the rows of every result set are in non-decreasing order of distance.
C7_SortedByDistance ==
    last.outcome = "ok" =>
        \A k \in DOMAIN last.resp : \A i, j \in DOMAIN last.resp[k] :
            i < j => last.resp[k][i].distance <= last.resp[k][j].distance

\* a result set whose rows come out in another order than they are stored in
C7_Witness ==
    /\ last.outcome = "ok"
    /\ \E k \in DOMAIN last.resp :
          /\ Len(last.resp[k]) = Len(storeFile.records)
          /\ Len(last.resp[k]) >= 2
          /\ last.resp[k][1].distance < last.resp[k][Len(last.resp[k])].distance
          /\ last.resp[k][1].distance = StoredDistance(Len(storeFile.records), k)
          /\ StoredDistance(1, k) > StoredDistance(Len(storeFile.records), k)

\* the call got as far as comparing the query with the store
ReachedComparison ==
    /\ IsDir(last.db_path)
    /\ last.outcome \in {"ok", "DimensionMismatchError", "ConfigurationError"}

\* some stored embedding and some query embedding differ in length
LengthsDiffer ==
    \E i \in DOMAIN storeFile.records, k \in DOMAIN QueryFaces :
        Len(storeFile.records[i][2]) # Len(Embed(QueryFaces[k].crop))

C9_BadDirectoryFailsFirst ==
    [][ (FindReturned /\ ~(last'.db_path \in Directories)) =>
          /\ last'.outcome = "ConfigurationError"
          /\ storeFile' = storeFile
          /\ ~last'.wrote /\ ~last'.readStore
          /\ last'.nDetect = 0 /\ last'.nEmbed = 0 ]_vars

\* db_path names an image file while a store file and images exist
C9_Witness ==
    /\ last.outcome = "ConfigurationError"
    /\ last.db_path = "db/A.jpg" /\ disk["db/A.jpg"] # 0
    /\ storeFile.exists
    /\ last.img_path = "q2"

\* C10: over any series of build_model calls a backend is constructed at
\* most once, every call returns the instance cached for its name, a cached
\* instance is never replaced, and a call constructs no backend but its own.
C10_OneInstancePerBackend ==
    [][ /\ \A n \in backends : built'[n] <= 1
        /\ \A n \in DOMAIN Globals(face_detector_obj) :
              /\ n \in DOMAIN Globals(face_detector_obj')
              /\ Globals(face_detector_obj')[n] = Globals(face_detector_obj)[n]
        /\ \A n \in backends : n # ret'.name => built'[n] = built[n]
        /\ (ret'.op = "build_model" /\ ret'.err = "") =>
              ret'.value = Globals(face_detector_obj')[ret'.name]
        /\ (ret'.op = "detect_faces" /\ ret'.err = "") =>
              ret'.value[1] = Globals(face_detector_obj')[ret'.name] ]_vars

\* a call answered from the cache while other backends are built as well
C10_Witness ==
    /\ ret.op = "build_model" /\ ret.err = "" /\ ~ret.constructed
    /\ ret.value = << ret.name, 1 >>
    /\ Cardinality(DOMAIN Globals(face_detector_obj)) >= 3

\* both threads have left build_model
ThreadsDone == \A t \in Threads : threads[t].pc \in {"returned", "raised"}

\* C11: when two threads call build_model for one backend that neither has
\* used before, the backend is constructed exactly once and both calls
\* return the same instance.
C11_ConcurrentFirstUseBuildsOnce ==
    \A n \in backends :
        (ThreadsDone /\ \A t \in Threads : threads[t].detector_backend = n)
            => /\ built[n] = 1
               /\ \A t, u \in Threads :
                     /\ threads[t].pc = "returned"
                     /\ threads[t].value = threads[u].value

\* the call that has just returned built the store file from scratch
BuiltFromScratch == last.outcome # "idle" /\ last.wrote /\ ~last.readStore

\* what a later load of the store file yields
Reloaded == storeFile.records

\* the faces extracted from directory image p at build time
BuildFaces(p) == ExtractFaces(Content(p, disk[p]), last.enforce_detection).faces

\* the reloaded records of image p, in stored order
RecordsOf(p) == SelectSeq(Reloaded, LAMBDA rep : rep[1] = p)

\* C12 as stated: a store built from a directory of N images reloads as
\* exactly N records whose identities are the N image paths, each with the
\* embedding computed at build time.
C12_BuildYieldsNRecords ==
    BuiltFromScratch =>
        /\ Len(Reloaded) = Cardinality(ListImages(disk))
        /\ Identities(Reloaded) = ListImages(disk)
        /\ \A p \in ListImages(disk) :
              RecordsOf(p) # << >>
              /\ RecordsOf(p)[1][2] = Embed(BuildFaces(p)[1].crop)

\* C12 as amended: the store reloads with one record per face extracted
\* from each image (N records when every image yields one face); the
\* identities are the N image paths and every record carries the embedding
\* and region computed for its face at build time.
C12_BuildYieldsRecordPerFace ==
    BuiltFromScratch =>
        /\ Identities(Reloaded) = ListImages(disk)
        /\ \A p \in ListImages(disk) :
              /\ Len(RecordsOf(p)) = Len(BuildFaces(p))
              /\ \A k \in DOMAIN RecordsOf(p) :
                    /\ Len(RecordsOf(p)[k]) = Len(df_cols)
                    /\ RecordsOf(p)[k][2] = Embed(BuildFaces(p)[k].crop)
                    /\ Region(RecordsOf(p)[k][3], RecordsOf(p)[k][4],
                              RecordsOf(p)[k][5], RecordsOf(p)[k][6])
                          = BuildFaces(p)[k].region
        /\ (\A p \in ListImages(disk) : Len(BuildFaces(p)) = 1)
              => Len(Reloaded) = Cardinality(ListImages(disk))

\* a store built from three images, one of them with two faces
C12_Witness ==
    /\ BuiltFromScratch
    /\ Cardinality(ListImages(disk)) = 3
    /\ Len(Reloaded) = 4

\* the call that returns in this step can fail on nothing but its metric: it
\* names a directory that holds images and does not enforce detection
OnlyMetricCanFail ==
    /\ FindReturned
    /\ IsDir(last'.db_path) /\ ListImages(disk) # {}
    /\ ~last'.enforce_detection

\* C13: a find with a distance metric other than cosine, euclidean and
\* euclidean_l2 fails with ConfigurationError before the store file is
\* created or rewritten, whatever the store and the query image hold.
C13_BadMetricFailsBeforeWrite ==
    [][ (OnlyMetricCanFail /\ ~ValidMetric(last'.distance_metric)) =>
          /\ last'.outcome = "ConfigurationError"
          /\ ~last'.wrote
          /\ storeFile' = storeFile ]_vars

\* all embeddings of the records have one length
OneLength(representations) ==
    \A i, j \in DOMAIN representations :
        Len(representations[i][2]) = Len(representations[j][2])

\* C14: a store file whose records all have embeddings of one length D (the
\* result of an initial build, by whatever version of the embedder) still
\* has records of one length after every find that persists it: a sync
\* never persists a store that mixes embedding lengths.
C14_SyncKeepsOneLength ==
    [][ (FindReturned /\ last'.wrote /\ OneLength(storeFile.records))
            => OneLength(storeFile'.records) ]_vars

\* the images the call that returns in this step has to embed for the store
ImagesToEmbed ==
    IF storeFile.exists THEN ListImages(disk) \ Identities(storeFile.records)
                        ELSE ListImages(disk)

\* no face is found in one of them while detection is enforced
ExtractionFails ==
    /\ last'.enforce_detection
    /\ \E p \in ImagesToEmbed : Detect(Content(p, disk[p])) = << >>

\* C15: a find that fails while it builds or syncs the store (no face found
\* in an image to embed under enforced detection, or the database found
\* empty) leaves the store file exactly as it was: not created, not
\* rewritten, without any of the new records.
C15_FailedSyncLeavesStore ==
    [][ (/\ FindReturned /\ IsDir(last'.db_path)
         /\ (ExtractionFails \/ last'.outcome = "EmptyDatabaseError"))
        => /\ last'.outcome # "ok"
           /\ ~last'.wrote
           /\ storeFile' = storeFile ]_vars

\* a sync that had embedded one added image when the next one failed
C15_Witness ==
    /\ last.outcome = "FaceNotFoundError"
    /\ last.readStore /\ storeFile.exists
    /\ Cardinality(last.newbies) = 2
    /\ last.nEmbed > 0
    /\ last.newbies \cap Identities(storeFile.records) = {}

\* the call that returns in this step loaded the store file and re-persisted it
SyncPersisted == FindReturned /\ last'.readStore /\ last'.wrote

\* C16: an incremental sync leaves the records of every identity that is in
\* the store and on disk as they are, in place and without detecting or
\* embedding their images again, also when the image was modified in place;
\* what it appends are records of added identities and what it deletes are
\* the records of removed identities.
C16_SyncKeepsStoredRecords ==
    [][ SyncPersisted =>
          LET before == storeFile.records
              after == storeFile'.records
              kept == SelectSeq(before, LAMBDA rep : rep[1] \in ListImages(disk))
          IN /\ Len(after) >= Len(kept)
             /\ SubSeq(after, 1, Len(kept)) = kept
             /\ \A i \in DOMAIN after :
                   i > Len(kept) =>
                      after[i][1] \in ListImages(disk) \ Identities(before)
             /\ \A i \in DOMAIN before :
                   before[i][1] \notin ListImages(disk) =>
                      before[i][1] \notin Identities(after)
             /\ last'.nDetect <=
                   Cardinality(ListImages(disk) \ Identities(before)) + 1 ]_vars

\* a sync with an addition and a removal that kept the record of A.jpg as
\* embedded from its first content although the file has its second now
C16_Witness ==
    /\ last.outcome = "ok" /\ last.readStore /\ last.wrote
    /\ last.newbies # {} /\ last.oldies # {}
    /\ disk["db/A.jpg"] = 2
    /\ \E i \in DOMAIN storeFile.records :
          /\ storeFile.records[i][1] = "db/A.jpg"
          /\ storeFile.records[i][2] = Embed(Detect(Content("db/A.jpg", 1))[1].crop)
          /\ storeFile.records[i][2] # Embed(Detect(Content("db/A.jpg", 2))[1].crop)

\* C17: build_model (and detect_faces, which calls it) with a name that is
\* no backend fails with UnknownBackendError every time and leaves the
\* registry as it was: it caches nothing under that name, constructs
\* nothing, and the instances cached before stay the same.
C17_UnknownBackendChangesNothing ==
    [][ (ret'.op # "none" /\ ret'.name \notin backends) =>
          /\ ret'.err = "UnknownBackendError"
          /\ ret'.value = << >>
          /\ ret'.name \notin DOMAIN face_detector_obj'.dict
          /\ face_detector_obj'.dict = face_detector_obj.dict
          /\ built' = built ]_vars

\* an unknown name asked for after two backends have been built
C17_Witness ==
    /\ ret.op = "build_model" /\ ret.err = "UnknownBackendError"
    /\ ret.name \notin backends
    /\ Cardinality(DOMAIN face_detector_obj.dict) >= 2

====
